---- MODULE Spec2Model ----
(***************************************************************************)
(* A model of the Python tokenizer of rustpy_compiler                      *)
(* (rustpy_compiler/src/tokenizer.rs).                                     *)
(*                                                                         *)
(* As in the Rust code, a str is a sequence of UTF-8 bytes: the source,    *)
(* every token value, the cursor `position` and every length are in        *)
(* bytes, and slicing a str at an offset inside a character panics.  An    *)
(* ASCII byte is written as its character ("a", "("); the two-byte         *)
(* characters of the model are U+00AA = <<"C2", "AA">> (whose NFKC form    *)
(* is "a") and U+00E9 = <<"C3", "A9">>.  A decoded char is named by its    *)
(* character ("a") or its code point ("U+00AA").                           *)
(***************************************************************************)
EXTENDS Integers, Sequences, FiniteSets, TLC

VARIABLES
    source,               \* Tokenizer.source
    position,             \* Tokenizer.position (bytes)
    parentheses_level,    \* Tokenizer.parentheses_level
    previous_token_type,  \* Tokenizer.previous_token_type ("None" = Option::None)
    indentation_stack,    \* Tokenizer.indentation_stack
    token_buffer,         \* Tokenizer.token_buffer
    output,               \* history: the tokens next() has returned so far
    result,               \* history: what the last call of next() did
    start_position,       \* history: the cursor when the last call of next() began
    start_level,          \* history: parentheses_level when the last call began
    start_previous,       \* history: previous_token_type when the last call began
    none_calls,           \* history: how many calls have returned None
    call                  \* history: the last direct call of a scanner, as the tests make it

vars == <<source, position, parentheses_level, previous_token_type,
          indentation_stack, token_buffer, output, result,
          start_position, start_level, start_previous, none_calls, call>>

-----------------------------------------------------------------------------
(* Characters and strings                                                  *)

\* The UTF-8 encoding of one char.
encode_utf8(c) ==
    CASE c = "U+00AA" -> <<"C2", "AA">>
      [] c = "U+00E9" -> <<"C3", "A9">>
      [] OTHER -> <<c>>

\* char::len_utf8
len_utf8(c) == Len(encode_utf8(c))

\* Whether a byte is a UTF-8 continuation byte (10xxxxxx).
IsContinuationByte(b) == b \in {"AA", "A9"}

RECURSIVE utf8(_)
\* The str (bytes) of a sequence of chars.
utf8(cs) == IF cs = <<>> THEN <<>> ELSE encode_utf8(Head(cs)) \o utf8(Tail(cs))

RECURSIVE chars(_)
\* str::chars of a str that starts at a character boundary.
chars(s) ==
    IF s = <<>> THEN <<>>
    ELSE IF Len(s) >= 2 /\ IsContinuationByte(s[2])
    THEN <<(IF s[1] = "C2" THEN "U+00AA" ELSE "U+00E9")>> \o chars(Tail(Tail(s)))
    ELSE <<Head(s)>> \o chars(Tail(s))

\* str::is_char_boundary
is_char_boundary(s, b) ==
    \/ b = 0
    \/ b = Len(s)
    \/ b < Len(s) /\ ~IsContinuationByte(s[b + 1])

\* &s[b..] for a character boundary b <= s.len()
SliceFrom(s, b) == SubSeq(s, b + 1, Len(s))

\* str::starts_with
starts_with(s, prefix) ==
    /\ Len(prefix) <= Len(s)
    /\ SubSeq(s, 1, Len(prefix)) = prefix

RECURSIVE join(_)
\* [&str]::join(""): the concatenation of a sequence of strings.
join(ss) == IF ss = <<>> THEN <<>> ELSE Head(ss) \o join(Tail(ss))

\* char::is_digit(10)
is_digit(c) == c \in {"0", "1", "2", "3", "4", "5", "6", "7", "8", "9"}

\* UnicodeXID::is_xid_start, on the chars of the model.
is_xid_start(c) == c \in {"a", "b", "x", "U+00AA", "U+00E9"}

\* UnicodeXID::is_xid_continue, on the chars of the model.
is_xid_continue(c) == is_xid_start(c) \/ is_digit(c) \/ c = "_"

\* NFKC of one char: FEMININE ORDINAL INDICATOR (U+00AA) has the
\* compatibility decomposition "a"; the other chars are in normal form.
nfkc_char(c) == IF c = "U+00AA" THEN "a" ELSE c

\* UnicodeNormalization::nfkc().collect::<String>()
nfkc(s) ==
    LET normalized(cs) == utf8([i \in 1..Len(cs) |-> nfkc_char(cs[i])])
    IN  normalized(chars(s))

-----------------------------------------------------------------------------
(* Tokens and Option<Token>                                                *)

Token(token_type, value) == [token_type |-> token_type, value |-> value]

NoToken == Token("None", <<>>)

Some(token) == [tag |-> "Some", token |-> token]
None == [tag |-> "None", token |-> NoToken]
\* A panic!() or a slicing panic while the value was being computed.
Panic == [tag |-> "Panic", token |-> NoToken]

\* A direct call of a scanner: the function, its arguments and what it
\* returned.
Call(fn, value, token_type, ret) ==
    [fn |-> fn, value |-> value, token_type |-> token_type, ret |-> ret]

\* No scanner has been called directly since the last call of next().
NoCall == Call("None", <<>>, "None", None)

SIMPLE_TOKENS == <<
    << <<"\\", "\r", "\n">>, "NewlineContinuation" >>,
    << <<"\\", "\n">>, "NewlineContinuation" >>,
    << <<">", ">", "=">>, "RightShiftEqual" >>,
    << <<"<", "<", "=">>, "LeftShiftEqual" >>,
    << <<"/", "/", "=">>, "DoubleSlashEqual" >>,
    << <<"*", "*", "=">>, "DoubleStarEqual" >>,
    << <<".", ".", ".">>, "Ellipsis" >>,
    << <<"!", "=">>, "NotEqual" >>,
    << <<"&", "=">>, "AmpersandEqual" >>,
    << <<"@", "=">>, "AtEqual" >>,
    << <<"^", "=">>, "CircumflexEqual" >>,
    << <<"%", "=">>, "PercentEqual" >>,
    << <<"+", "=">>, "PlusEqual" >>,
    << <<"|", "=">>, "VerticalBarEqual" >>,
    << <<"=", "=">>, "DoubleEqual" >>,
    << <<"-", "=">>, "MinusEqual" >>,
    << <<"-", ">">>, "RightArrow" >>,
    << <<">", ">">>, "RightShift" >>,
    << <<">", "=">>, "GreaterEqual" >>,
    << <<"<", "<">>, "LeftShift" >>,
    << <<"<", "=">>, "LessEqual" >>,
    << <<"/", "/">>, "DoubleSlash" >>,
    << <<"/", "=">>, "SlashEqual" >>,
    << <<"*", "*">>, "DoubleStar" >>,
    << <<"*", "=">>, "StarEqual" >>,
    << <<":">>, "Colon" >>,
    << <<",">>, "Comma" >>,
    << <<";">>, "Semicolon" >>,
    << <<"~">>, "Tilde" >>,
    << <<"&">>, "Ampersand" >>,
    << <<"@">>, "At" >>,
    << <<"^">>, "Circumflex" >>,
    << <<"%">>, "Percent" >>,
    << <<"+">>, "Plus" >>,
    << <<"|">>, "VerticalBar" >>,
    << <<"=">>, "Equal" >>,
    << <<"-">>, "Minus" >>,
    << <<">">>, "Greater" >>,
    << <<"<">>, "Less" >>,
    << <<"/">>, "Slash" >>,
    << <<"*">>, "Star" >>,
    << <<".">>, "Dot" >>,
    << <<"(">>, "LeftParenthesis" >>,
    << <<"[">>, "LeftSquareBracket" >>,
    << <<"{">>, "LeftBrace" >>,
    << <<")">>, "RightParenthesis" >>,
    << <<"]">>, "RightSquareBracket" >>,
    << <<"}">>, "RightBrace" >> >>

TAB_SIZE == 8

-----------------------------------------------------------------------------
(* The scanners                                                            *)

is_whitespace(c) == c \in {" ", "\t", "\f"}

RECURSIVE indentation_fold(_, _)
\* The fold of Tokenizer::indentation_level over the chars cs, from acc.
indentation_fold(acc, cs) ==
    IF cs = <<>> THEN acc
    ELSE indentation_fold(
             CASE Head(cs) = " " -> acc + 1
               [] Head(cs) = "\t" -> ((acc \div TAB_SIZE) + 1) * TAB_SIZE
               [] OTHER -> acc,
             Tail(cs))

RECURSIVE indentation_fold_tab_adds(_, _)
\* A fold in which a tab adds TAB_SIZE to the width.
indentation_fold_tab_adds(acc, cs) ==
    IF cs = <<>> THEN acc
    ELSE indentation_fold_tab_adds(
             CASE Head(cs) = " " -> acc + 1
               [] Head(cs) = "\t" -> acc + TAB_SIZE
               [] OTHER -> acc,
             Tail(cs))

\* An indentation_level in which a tab is as wide as TAB_SIZE spaces.
indentation_level_tab_adds(indentation) ==
    indentation_fold_tab_adds(0, chars(indentation))

\* Tokenizer::indentation_level; it is only handed runs of whitespace, so
\* its panic arm is never taken.
indentation_level(indentation) == indentation_fold(0, chars(indentation))

RECURSIVE whitespace_run(_)
\* The leading run of whitespace chars of cs.
whitespace_run(cs) ==
    IF cs # <<>> /\ is_whitespace(Head(cs))
    THEN <<Head(cs)>> \o whitespace_run(Tail(cs))
    ELSE <<>>

\* Tokenizer::whitespace_bytes, with the cursor at byte offset pos.
whitespace_bytes(src, pos) == Len(utf8(whitespace_run(chars(SliceFrom(src, pos)))))

\* An indentation() that emits one Indent token for every whitespace char
\* of an indented line.
indentation_per_column(src, pos, stack) ==
    LET blank(after) ==
            \/ after = <<>>
            \/ after[1] \in {"#", "\n"}
            \/ Len(after) >= 2 /\ after[1] = "\r" /\ after[2] = "\n"
        emitted(characters, run) ==
            IF run = <<>> \/ blank(SubSeq(characters, Len(run) + 1, Len(characters)))
            THEN [panic |-> FALSE, tokens |-> <<>>]
            ELSE [panic |-> FALSE,
                  tokens |-> [i \in 1..Len(run) |-> Token("Indent", encode_utf8(run[i]))]]
        scanned(characters) == emitted(characters, whitespace_run(characters))
    IN  scanned(chars(SliceFrom(src, pos)))

\* Tokenizer::indentation: the tokens to emit at the start of a logical line.
indentation(src, pos, stack) ==
    LET is_line_all_comment_or_whitespace(after) ==
            IF after = <<>> THEN TRUE
            ELSE CASE after[1] \in {"#", "\n"} -> TRUE
                   [] after[1] = "\r" -> Len(after) >= 2 /\ after[2] = "\n"
                   [] OTHER -> FALSE
        compare(indentation_value, current_indentation_value,
                new_indentation_level, current_indentation_level) ==
            IF new_indentation_level = current_indentation_level
            THEN [panic |-> ~starts_with(indentation_value, current_indentation_value),
                  tokens |-> <<>>]
            ELSE IF new_indentation_level > current_indentation_level
            THEN [panic |-> ~starts_with(indentation_value, current_indentation_value),
                  tokens |-> <<Token("Indent", indentation_value)>>]
            ELSE [panic |-> ~starts_with(current_indentation_value, indentation_value),
                  tokens |-> <<>>]
        measured(indentation_value, blank, current_indentation_value) ==
            IF indentation_value = <<>> \/ blank
            THEN [panic |-> FALSE, tokens |-> <<>>]
            ELSE compare(indentation_value, current_indentation_value,
                         indentation_level(indentation_value),
                         indentation_level(current_indentation_value))
        split(characters, run) ==
            measured(utf8(run),
                     is_line_all_comment_or_whitespace(
                         SubSeq(characters, Len(run) + 1, Len(characters))),
                     join(stack))
        scanned(characters) == split(characters, whitespace_run(characters))
    IN  scanned(chars(SliceFrom(src, pos)))

\* Tokenizer::simple: the candidate is sliced by byte offsets, which panics
\* when its begin or its end falls inside a character.
simple(src, pos, value, token_type) ==
    IF Len(src) >= pos + Len(value)
    THEN IF ~is_char_boundary(src, pos) \/ ~is_char_boundary(src, pos + Len(value))
         THEN Panic
         ELSE IF value = SubSeq(src, pos + 1, pos + Len(value))
              THEN Some(Token(token_type, value))
              ELSE None
    ELSE None

RECURSIVE comment_end(_, _)
\* The loop of Tokenizer::comment over cs, the chars from the cursor on:
\* the number of chars of the comment, looking from index i.
comment_end(cs, i) ==
    IF i > Len(cs) THEN Len(cs)
    ELSE IF cs[i] = "\n" THEN i - 1
    ELSE IF cs[i] = "\r"
         THEN IF i + 1 <= Len(cs) /\ cs[i + 1] = "\n" THEN i - 1
              ELSE comment_end(cs, i + 2) \* the char after '\r' was taken too
    ELSE comment_end(cs, i + 1)

\* Tokenizer::comment
comment(src, pos) ==
    LET value(cs) == utf8(SubSeq(cs, 1, comment_end(cs, 1)))
    IN  Some(Token("Comment", value(chars(SliceFrom(src, pos)))))

\* A newline() that takes depth 0 for an open bracket.
newline_from_zero(level, value) ==
    [tag |-> "Some",
     token |-> [token_type |-> IF level >= 0 THEN "NewlineContinuation"
                               ELSE "NewlineLogical",
                value |-> value]]

\* Tokenizer::newline
newline(level, value) ==
    Some(Token(IF level > 0 THEN "NewlineContinuation" ELSE "NewlineLogical", value))

RECURSIVE name_run(_)
\* The leading run of identifier chars of cs.
name_run(cs) ==
    IF cs # <<>> /\ is_xid_continue(Head(cs))
    THEN <<Head(cs)>> \o name_run(Tail(cs))
    ELSE <<>>

\* A name() that stops after the first char of the identifier.
name_first_char(src, pos) ==
    Some(Token("Name", nfkc(encode_utf8(Head(chars(SliceFrom(src, pos)))))))

\* Tokenizer::name: the value is the NFKC form of the run.
name(src, pos) == Some(Token("Name", nfkc(utf8(name_run(chars(SliceFrom(src, pos)))))))

\* Tokenizer::number
number == None

\* A scan of fractions that takes an underscore for the end of the literal.
fraction_valid_char_digit(character) == is_digit(character)

\* The match on one char in token_generators::fraction: '0'..='9' | '_'.
fraction_valid_char(character) == is_digit(character) \/ character = "_"

RECURSIVE fraction_end(_, _)
\* The loop of token_generators::fraction over cs, the chars that are left
\* at byte_position: the byte offset of the first char that is not valid,
\* or source.len() when there is none.
fraction_end(cs, byte_position) ==
    IF cs = <<>> THEN byte_position
    ELSE IF ~fraction_valid_char(Head(cs)) THEN byte_position
    ELSE fraction_end(Tail(cs), byte_position + len_utf8(Head(cs)))

\* token_generators::fraction: the first char is skipped unseen.
fraction(src) ==
    LET token_end_position(cs) ==
            IF cs = <<>> THEN Len(src)
            ELSE fraction_end(Tail(cs), len_utf8(Head(cs)))
    IN  Token("Number", SubSeq(src, 1, token_end_position(chars(src))))

-----------------------------------------------------------------------------
(* Tokenizer::next and Tokenizer::update                                   *)

\* The match on the first characters of the source in Tokenizer::next.
dispatch(src, pos, level) ==
    LET match(characters) ==
            IF characters = <<>> THEN None
            ELSE CASE characters[1] = "#" -> comment(src, pos)
                   [] characters[1] = "\r" ->
                        IF Len(characters) >= 2 /\ characters[2] = "\n"
                        THEN newline(level, <<"\r", "\n">>)
                        ELSE None
                   [] characters[1] = "\n" -> newline(level, <<"\n">>)
                   [] characters[1] = "." ->
                        IF Len(characters) >= 2 /\ is_digit(characters[2])
                        THEN number
                        ELSE None
                   [] is_digit(characters[1]) -> number
                   [] is_xid_start(characters[1]) -> name(src, pos)
                   [] OTHER -> None
    IN  match(chars(SliceFrom(src, pos)))

RECURSIVE simple_tokens_from(_, _, _)
\* The loop of Tokenizer::next over SIMPLE_TOKENS, from entry i on: the
\* first entry that matches (or panics) decides.
simple_tokens_from(src, pos, i) ==
    IF i > Len(SIMPLE_TOKENS) THEN None
    ELSE LET found(simple_token) ==
                 IF simple_token.tag # "None" THEN simple_token
                 ELSE simple_tokens_from(src, pos, i + 1)
         IN  found(simple(src, pos, SIMPLE_TOKENS[i][1], SIMPLE_TOKENS[i][2]))

\* An update() that leaves the cursor where it is after an Indent token.
update_position_keep_indent(pos, token) ==
    IF token.token_type = "Indent" THEN pos ELSE pos + Len(token.value)

\* Tokenizer::update, the cursor.
update_position(pos, token) == pos + Len(token.value)

\* An update() that counts parentheses only, not brackets and braces.
update_level_round_only(level, token) ==
    CASE token.token_type = "LeftParenthesis" -> level + 1
      [] token.token_type = "RightParenthesis" -> level - 1
      [] OTHER -> level

\* Tokenizer::update, the bracket depth.
update_level(level, token) ==
    CASE token.token_type \in {"LeftBrace", "LeftParenthesis", "LeftSquareBracket"} ->
            level + 1
      [] token.token_type \in {"RightBrace", "RightParenthesis", "RightSquareBracket"} ->
            level - 1
      [] OTHER -> level

\* An update() that puts the text of every Indent token at the front of the
\* indentation stack.
update_stack_push_front(stack, token) ==
    IF token.token_type = "Indent" THEN <<token.value>> \o stack ELSE stack

\* An update() that pushes the text of every Indent token on the
\* indentation stack.
update_stack_append(stack, token) ==
    IF token.token_type = "Indent" THEN Append(stack, token.value) ELSE stack

\* Tokenizer::update, the indentation stack: no token changes it.
update_stack(stack, token) == stack

\* A first closure that takes every newline token for the end of a logical
\* line, and so runs the indentation analysis inside brackets too.
line_start_any_newline(src, pos, prev, stack) ==
    LET buffered(tokens) ==
            IF tokens.panic
            THEN [ret |-> Panic, position |-> pos, token_buffer |-> <<>>]
            ELSE IF tokens.tokens = <<>>
            THEN [ret |-> None, position |-> pos, token_buffer |-> <<>>]
            ELSE [ret |-> Some(Head(tokens.tokens)), position |-> pos,
                  token_buffer |-> Tail(tokens.tokens)]
    IN  IF ~is_char_boundary(src, pos)
        THEN [ret |-> Panic, position |-> pos, token_buffer |-> <<>>]
        ELSE IF prev \in {"NewlineLogical", "NewlineContinuation"}
        THEN buffered(indentation(src, pos, stack))
        ELSE [ret |-> None, position |-> pos + whitespace_bytes(src, pos),
              token_buffer |-> <<>>]

\* A first closure that runs the indentation analysis on the first call of
\* next() too.
line_start_first_step(src, pos, prev, stack) ==
    LET buffered(tokens) ==
            IF tokens.panic
            THEN [ret |-> Panic, position |-> pos, token_buffer |-> <<>>]
            ELSE IF tokens.tokens = <<>>
            THEN [ret |-> None, position |-> pos, token_buffer |-> <<>>]
            ELSE [ret |-> Some(Head(tokens.tokens)), position |-> pos,
                  token_buffer |-> Tail(tokens.tokens)]
    IN  IF ~is_char_boundary(src, pos)
        THEN [ret |-> Panic, position |-> pos, token_buffer |-> <<>>]
        ELSE IF prev \in {"None", "NewlineLogical"}
        THEN buffered(indentation(src, pos, stack))
        ELSE [ret |-> None, position |-> pos + whitespace_bytes(src, pos),
              token_buffer |-> <<>>]

\* A first closure that returns the first token of indentation() and
\* leaves it in token_buffer as well.
line_start_keeps_buffer(src, pos, prev, stack) ==
    LET buffered(tokens) ==
            IF tokens.panic
            THEN [ret |-> Panic, position |-> pos, token_buffer |-> <<>>]
            ELSE IF tokens.tokens = <<>>
            THEN [ret |-> None, position |-> pos, token_buffer |-> <<>>]
            ELSE [ret |-> Some(Head(tokens.tokens)), position |-> pos,
                  token_buffer |-> tokens.tokens]
    IN  IF ~is_char_boundary(src, pos)
        THEN [ret |-> Panic, position |-> pos, token_buffer |-> <<>>]
        ELSE IF prev = "NewlineLogical"
        THEN buffered(indentation(src, pos, stack))
        ELSE [ret |-> None, position |-> pos + whitespace_bytes(src, pos),
              token_buffer |-> <<>>]

\* The first closure of Tokenizer::next, run when token_buffer was empty:
\* indentation analysis after a NewlineLogical, else the whitespace skip.
\* Slicing the source at a cursor inside a character panics.
line_start(src, pos, prev, stack) ==
    LET buffered(tokens) ==
            IF tokens.panic
            THEN [ret |-> Panic, position |-> pos, token_buffer |-> <<>>]
            ELSE IF tokens.tokens = <<>>
            THEN [ret |-> None, position |-> pos, token_buffer |-> <<>>]
            ELSE [ret |-> Some(Head(tokens.tokens)), position |-> pos,
                  token_buffer |-> Tail(tokens.tokens)]
    IN  IF ~is_char_boundary(src, pos)
        THEN [ret |-> Panic, position |-> pos, token_buffer |-> <<>>]
        ELSE IF prev = "NewlineLogical"
        THEN buffered(indentation(src, pos, stack))
        ELSE [ret |-> None, position |-> pos + whitespace_bytes(src, pos),
              token_buffer |-> <<>>]

\* The token of one call of next() with the cursor inside the source, and
\* the cursor and token_buffer as the scanners leave them.
scan(src, pos, level, prev, stack, buffer) ==
    LET second(first) ==
            IF first.ret.tag # "None" THEN first.ret
            ELSE dispatch(src, first.position, level)
        third(first, token) ==
            IF token.tag # "None" THEN token
            ELSE simple_tokens_from(src, first.position, 1)
        matched(first, token) ==
            [ret |-> IF token.tag = "None"
                     THEN Panic \* panic!("TODO: No token matches found! ...")
                     ELSE token,
             position |-> first.position,
             token_buffer |-> first.token_buffer]
        returned(first) == matched(first, third(first, second(first)))
    IN  returned(IF buffer # <<>>
                 THEN [ret |-> Some(Head(buffer)), position |-> pos,
                       token_buffer |-> Tail(buffer)]
                 ELSE line_start(src, pos, prev, stack))

\* A next() whose early return rewinds the cursor, so that the iterator
\* starts over once it is exhausted.
next_step_restartable(src, pos, level, prev, stack, buffer) ==
    LET updated(s) ==
            IF s.ret.tag = "Panic"
            THEN [ret |-> Panic, position |-> s.position,
                  parentheses_level |-> level, previous_token_type |-> prev,
                  indentation_stack |-> stack, token_buffer |-> s.token_buffer]
            ELSE [ret |-> s.ret,
                  position |-> update_position(s.position, s.ret.token),
                  parentheses_level |-> update_level(level, s.ret.token),
                  previous_token_type |-> s.ret.token.token_type,
                  indentation_stack |-> update_stack(stack, s.ret.token),
                  token_buffer |-> s.token_buffer]
    IN  IF pos >= Len(src)
        THEN [ret |-> None, position |-> 0, parentheses_level |-> level,
              previous_token_type |-> prev, indentation_stack |-> stack,
              token_buffer |-> buffer]
        ELSE updated(scan(src, pos, level, prev, stack, buffer))

\* Tokenizer::next as a function of the tokenizer's fields: what it returns
\* and the fields afterwards.
next_step(src, pos, level, prev, stack, buffer) ==
    LET updated(s) ==
            IF s.ret.tag = "Panic"
            THEN [ret |-> Panic, position |-> s.position,
                  parentheses_level |-> level, previous_token_type |-> prev,
                  indentation_stack |-> stack, token_buffer |-> s.token_buffer]
            ELSE [ret |-> s.ret,
                  position |-> update_position(s.position, s.ret.token),
                  parentheses_level |-> update_level(level, s.ret.token),
                  previous_token_type |-> s.ret.token.token_type,
                  indentation_stack |-> update_stack(stack, s.ret.token),
                  token_buffer |-> s.token_buffer]
    IN  IF pos >= Len(src)
        THEN [ret |-> None, position |-> pos, parentheses_level |-> level,
              previous_token_type |-> prev, indentation_stack |-> stack,
              token_buffer |-> buffer]
        ELSE updated(scan(src, pos, level, prev, stack, buffer))

-----------------------------------------------------------------------------
(* The sources the tokenizer is run on                                     *)

\* The longest source of Spec, in characters.
MaxLen == 4
\* How often next() is called again after it has returned None.
MaxNoneCalls == 2

Alphabet == {"a", "1", " ", "\n", "\r", "(", ")", "#", "=", "U+00AA"}

Strings(alphabet, n) == UNION {[1..k -> alphabet] : k \in 0..n}

Sources == {utf8(cs) : cs \in Strings(Alphabet, MaxLen)}

\* Tokenizer::new
new(src) ==
    /\ source = src
    /\ position = 0
    /\ parentheses_level = 0
    /\ previous_token_type = "None"
    /\ indentation_stack = <<>>
    /\ token_buffer = <<>>
    /\ output = <<>>
    /\ result = "New"
    /\ start_position = 0
    /\ start_level = 0
    /\ start_previous = "None"
    /\ none_calls = 0
    /\ call = NoCall

Init == \E src \in Sources : new(src)

\* One call of Tokenizer::next.  A panic ends the process; after None the
\* iterator may be polled again.
next ==
    /\ result # "Panic"
    /\ call.ret.tag # "Panic"
    /\ none_calls < MaxNoneCalls
    /\ \E r \in {next_step(source, position, parentheses_level,
                           previous_token_type, indentation_stack, token_buffer)} :
           /\ position' = r.position
           /\ parentheses_level' = r.parentheses_level
           /\ previous_token_type' = r.previous_token_type
           /\ indentation_stack' = r.indentation_stack
           /\ token_buffer' = r.token_buffer
           /\ result' = r.ret.tag
           /\ output' = IF r.ret.tag = "Some" THEN Append(output, r.ret.token)
                        ELSE output
           /\ none_calls' = IF r.ret.tag = "None" THEN none_calls + 1 ELSE none_calls
    /\ start_position' = position
    /\ start_level' = parentheses_level
    /\ start_previous' = previous_token_type
    /\ call' = NoCall
    /\ UNCHANGED source

Next == next

\* Every source of at most MaxLen chars over Alphabet.
Spec == Init /\ [][Next]_vars

\* The longest source of SpecOps, in pieces.
MaxOps == 2

\* The pieces of the sources of SpecOps: every entry of SIMPLE_TOKENS, a
\* name, a digit, a space and a two-byte character.
OpPieces ==
    {SIMPLE_TOKENS[i][1] : i \in 1..Len(SIMPLE_TOKENS)}
        \cup {<<"a">>, <<"1">>, <<" ">>, utf8(<<"U+00E9">>)}

OpSources == {join(ps) : ps \in Strings(OpPieces, MaxOps)}

InitOps == \E src \in OpSources : new(src)

\* Every source made of at most MaxOps operators (or other pieces).
SpecOps == InitOps /\ [][Next]_vars

\* The longest source of SpecIndent, in lines.
MaxLines == 3

EightSpaces == <<" ", " ", " ", " ", " ", " ", " ", " ">>

\* The lines of the sources of SpecIndent: leading whitespace, then a name
\* or nothing, then a line terminator or nothing.
Lines ==
    {ws \o body \o terminator :
        ws \in {<<>>, <<" ">>, <<"\t">>, EightSpaces},
        body \in {<<>>, <<"a">>},
        terminator \in {<<>>, <<"\n">>}}

LineSources == {join(ls) : ls \in Strings(Lines, MaxLines)}

InitIndent == \E src \in LineSources : new(src)

\* Every source of at most MaxLines lines.
SpecIndent == InitIndent /\ [][Next]_vars

\* The longest source of SpecBrackets, in pieces.
MaxBrackets == 3

\* The pieces of the sources of SpecBrackets: the six brackets, a name and
\* a line terminator.
BracketPieces == {"(", ")", "[", "]", "{", "}", "a", "\n"}

BracketSources == Strings(BracketPieces, MaxBrackets)

InitBrackets == \E src \in BracketSources : new(src)

\* Every source of at most MaxBrackets brackets (or other pieces).
SpecBrackets == InitBrackets /\ [][Next]_vars

\* The longest source of SpecFeed, in lines.
MaxFeedLines == 3

\* The lines of the sources of SpecFeed: leading whitespace with form feeds
\* in it, then a name or nothing, then a line terminator or nothing.
FeedLines ==
    {ws \o body \o terminator :
        ws \in {<<>>, <<"\f">>, <<" ", "\f">>},
        body \in {<<>>, <<"a">>},
        terminator \in {<<>>, <<"\n">>}}

FeedSources == {join(ls) : ls \in Strings(FeedLines, MaxFeedLines)}

InitFeed == \E src \in FeedSources : new(src)

\* Every source of at most MaxFeedLines lines with form feeds.
SpecFeed == InitFeed /\ [][Next]_vars

\* The longest string of SpecWidth, in characters.
MaxWidth == 8

WidthSources == Strings({" ", "\t", "\f"}, MaxWidth)

\* The argument of indentation_level() is held in source; it is an
\* associated function, and the fields of the tokenizer play no part.
InitWidth == \E src \in WidthSources : new(src)

\* A call of Tokenizer::indentation_level on a string of whitespace.
indentation_level_call ==
    /\ call = NoCall
    /\ call' = Call("indentation_level", source, "None",
                    [tag |-> "Level", token |-> NoToken,
                     level |-> indentation_level(source)])
    /\ UNCHANGED <<source, position, parentheses_level, previous_token_type,
                   indentation_stack, token_buffer, output, result,
                   start_position, start_level, start_previous, none_calls>>

NextWidth == indentation_level_call

\* indentation_level() on every whitespace string of at most MaxWidth chars.
SpecWidth == InitWidth /\ [][NextWidth]_vars

\* The longest source of SpecSimple, in characters.
MaxSimple == 3

SimpleSources == {utf8(cs) : cs \in Strings({">", "=", "U+00AA"}, MaxSimple)}

InitSimple == \E src \in SimpleSources : new(src)

\* A direct call of Tokenizer::simple, as the unit tests make it, with an
\* entry of SIMPLE_TOKENS for its arguments.  It takes &self: no field of
\* the tokenizer changes.  A panic ends the process.
simple_call ==
    /\ result # "Panic"
    /\ call.ret.tag # "Panic"
    /\ \E i \in 1..Len(SIMPLE_TOKENS) :
           call' = Call("simple", SIMPLE_TOKENS[i][1], SIMPLE_TOKENS[i][2],
                        simple(source, position,
                               SIMPLE_TOKENS[i][1], SIMPLE_TOKENS[i][2]))
    /\ UNCHANGED <<source, position, parentheses_level, previous_token_type,
                   indentation_stack, token_buffer, output, result,
                   start_position, start_level, start_previous, none_calls>>

NextSimple == next \/ simple_call

\* Calls of simple() at every cursor that calls of next() leave.
SpecSimple == InitSimple /\ [][NextSimple]_vars

\* The longest fraction of SpecFraction after its '.', in characters.
MaxFraction == 4

FractionSources ==
    {utf8(<<".">> \o cs) : cs \in Strings({"1", "_", "a", "U+00E9"}, MaxFraction)}

\* The argument of fraction() is held in source; fraction() is a free
\* function, and the other fields of the tokenizer play no part.
InitFraction == \E src \in FractionSources : new(src)

\* A call of token_generators::fraction, as the unit tests make it.  It
\* returns a Token, not an Option.
fraction_call ==
    /\ call = NoCall
    /\ call' = Call("fraction", source, "Number",
                    [tag |-> "Token", token |-> fraction(source)])
    /\ UNCHANGED <<source, position, parentheses_level, previous_token_type,
                   indentation_stack, token_buffer, output, result,
                   start_position, start_level, start_previous, none_calls>>

NextFraction == fraction_call

\* fraction() on every source that is a '.' and at most MaxFraction chars.
SpecFraction == InitFraction /\ [][NextFraction]_vars

-----------------------------------------------------------------------------
(* What the claims speak of                                                *)

LastToken == output[Len(output)]

\* How many tokens of a kind next() has returned.
Count(token_type) == Cardinality({i \in 1..Len(output) : output[i].token_type = token_type})

\* The text of all the tokens returned, in order.
OutputText == join([i \in 1..Len(output) |-> output[i].value])

\* The last call of next() got past its early return: it scanned for a token.
Scanned == result \in {"Some", "Panic"}

\* Where the scan of the last call began, once the whitespace that next()
\* skips between tokens is passed (none is skipped after a NewlineLogical).
TokenStart ==
    IF start_previous = "NewlineLogical" THEN start_position
    ELSE start_position + whitespace_bytes(source, start_position)

\* The line terminator the source has at byte offset pos, <<>> if none.
TerminatorAt(pos) ==
    LET terminator(s) ==
            IF s # <<>> /\ s[1] = "\n" THEN <<"\n">>
            ELSE IF Len(s) >= 2 /\ s[1] = "\r" /\ s[2] = "\n" THEN <<"\r", "\n">>
            ELSE <<>>
    IN  terminator(SliceFrom(source, pos))

\* C1: a tokenization that succeeds (next() has returned None) has produced
\* a sequence that ends with an EndMarker token, the only one in it.
C1_EndsWithOneEndMarker ==
    result = "None" =>
        /\ output # <<>>
        /\ LastToken.token_type = "EndMarker"
        /\ Count("EndMarker") = 1

\* C2: round trip: when a tokenization succeeds, the texts of the tokens, in
\* the order produced, concatenate to the source.
C2_RoundTrip == result = "None" => OutputText = source

\* C3: no call of next() aborts the process.
C3_NeverPanics == result # "Panic"

\* C4: a line terminator at a token start is returned whole, as one token,
\* NewlineContinuation when the bracket depth is above 0 as it is scanned and
\* NewlineLogical when the depth is 0.
C4_NewlineClassified ==
    (/\ Scanned
     /\ is_char_boundary(source, start_position)
     /\ TerminatorAt(TokenStart) # <<>>)
    => /\ result = "Some"
       /\ LastToken.value = TerminatorAt(TokenStart)
       /\ LastToken.token_type \in {"NewlineContinuation", "NewlineLogical"}
       /\ start_level > 0 => LastToken.token_type = "NewlineContinuation"
       /\ start_level = 0 => LastToken.token_type = "NewlineLogical"

\* C4 witness: a "\r\n" scanned inside brackets came back as one
\* NewlineContinuation token.
C4_Witness ==
    /\ result = "Some"
    /\ start_level > 0
    /\ TerminatorAt(TokenStart) = <<"\r", "\n">>
    /\ LastToken = Token("NewlineContinuation", <<"\r", "\n">>)

\* C5: continuation transparency: a call of next() made while the bracket
\* depth is above 0 returns no Indent, Dedent or NewlineLogical token.
C5_ContinuationTransparency ==
    (result = "Some" /\ start_level > 0)
    => LastToken.token_type \notin {"Indent", "Dedent", "NewlineLogical"}

\* C5 witness: inside brackets, after a line break, a line that begins with
\* whitespace gave its first token without an Indent.
C5_Witness ==
    /\ result = "Some"
    /\ start_level > 0
    /\ start_previous = "NewlineContinuation"
    /\ whitespace_bytes(source, start_position) > 0
    /\ LastToken.token_type = "Name"

\* The last token returned is the first token of a logical line that begins
\* in column 0: the call followed a NewlineLogical, the source has no
\* whitespace at the cursor, and the token is a name, a number or an operator.
FirstTokenAtColumnZero ==
    /\ result = "Some"
    /\ start_previous = "NewlineLogical"
    /\ whitespace_bytes(source, start_position) = 0
    /\ LastToken.token_type \notin
           {"Indent", "Dedent", "NewlineLogical", "NewlineContinuation", "Comment"}

\* C6: when a logical line begins with less indentation than the open
\* block, one Dedent per closed level comes before the line's first token, or
\* before the end of the sequence; so when a line has begun in column 0, and
\* when the sequence has ended, every Indent has had its Dedent.
C6_DedentPerClosedLevel ==
    (FirstTokenAtColumnZero \/ result = "None") => Count("Dedent") = Count("Indent")

\* output[i] and output[j] are Indent tokens that open two consecutive
\* logical lines: the only NewlineLogical between them is right before the
\* second, and no Dedent is between them.
ConsecutiveIndents(i, j) ==
    /\ i < j - 1
    /\ output[i].token_type = "Indent"
    /\ output[j].token_type = "Indent"
    /\ output[j - 1].token_type = "NewlineLogical"
    /\ \A k \in (i + 1)..(j - 2) :
           output[k].token_type \notin {"NewlineLogical", "Indent", "Dedent"}

\* C7: two consecutive logical lines with the same non-empty indentation
\* yield one Indent, before the first of them: the second gets none.
C7_EqualIndentationNoToken ==
    \A i, j \in 1..Len(output) :
        ConsecutiveIndents(i, j) => output[i].value # output[j].value

\* C8: dedent balance: when a tokenization succeeds, the Indent tokens minus
\* the Dedent tokens produced are as many as the entries of indentation_stack.
C8_DedentBalance ==
    result = "None" => Count("Indent") - Count("Dedent") = Len(indentation_stack)

\* C9: a logical line whose leading whitespace is as wide as the open
\* block's but does not begin with it makes the call at the line's start
\* fail: no token is returned for it.
C9_TabErrorAtEqualWidth ==
    \A i, j \in 1..Len(output) :
        (/\ ConsecutiveIndents(i, j)
         /\ indentation_level(output[i].value) = indentation_level(output[j].value))
        => starts_with(output[j].value, output[i].value)

\* The entries of SIMPLE_TOKENS that the source begins with at offset pos.
EntriesAt(pos) ==
    {i \in 1..Len(SIMPLE_TOKENS) :
        starts_with(SliceFrom(source, pos), SIMPLE_TOKENS[i][1])}

\* The longest of a non-empty set of entries of SIMPLE_TOKENS.
Longest(entries) ==
    CHOOSE i \in entries :
        \A j \in entries : Len(SIMPLE_TOKENS[j][1]) <= Len(SIMPLE_TOKENS[i][1])

\* C10: longest match: when the source at a token start begins with entries
\* of SIMPLE_TOKENS, next() returns the longest of them.
C10_LongestMatch ==
    (/\ Scanned
     /\ is_char_boundary(source, start_position)
     /\ EntriesAt(TokenStart) # {})
    => /\ result = "Some"
       /\ LastToken.value = SIMPLE_TOKENS[Longest(EntriesAt(TokenStart))][1]
       /\ LastToken.token_type = SIMPLE_TOKENS[Longest(EntriesAt(TokenStart))][2]

\* The char the source has at byte offset pos (a character boundary), "" at
\* the end of the source.
CharAt(pos) ==
    LET first(characters) == IF characters = <<>> THEN "" ELSE characters[1]
    IN  first(chars(SliceFrom(source, pos)))

\* C11: when the char at a token start is a decimal digit, the call returns
\* a Number token.
C11_DigitGivesNumber ==
    (/\ Scanned
     /\ is_char_boundary(source, start_position)
     /\ is_digit(CharAt(TokenStart)))
    => /\ result = "Some"
       /\ LastToken.token_type = "Number"

\* C12: the sequence ends normally only at bracket depth 0: with a bracket
\* left open, or closed without having been opened, the last call fails
\* instead of returning None.
C12_UnbalancedBracketsFail == result = "None" => parentheses_level = 0

\* C13: exhaustion is permanent: after next() has returned None, a further
\* call returns None again and changes no field of the tokenizer.
C13_ExhaustionIsPermanent ==
    [][result = "None" =>
          /\ result' = "None"
          /\ UNCHANGED <<position, parentheses_level, previous_token_type,
                         indentation_stack, token_buffer>>]_vars

\* C13 witness: next() was called again after a tokenization that produced
\* tokens had ended, and returned None again.
C13_Witness ==
    /\ result = "None"
    /\ none_calls >= 2
    /\ output # <<>>

\* C14: a direct call of simple() returns Some(Token{kind, value}) exactly
\* when the bytes of the source from the cursor on begin with value, and
\* None otherwise; it never panics.  (That it changes no field of the
\* tokenizer is its signature, &self.)
C14_SimpleMatchesPrefix ==
    call.fn = "simple"
    => call.ret = IF starts_with(SubSeq(source, position + 1, Len(source)), call.value)
                  THEN Some(Token(call.token_type, call.value))
                  ELSE None

\* The chars of the value that the last call of fraction() returned.
FractionValue == chars(call.ret.token.value)

\* C15: the value that fraction() returns has underscores only between two
\* digits: none at its end, none next to another, none right after the '.'.
C15_UnderscoresBetweenDigits ==
    call.fn = "fraction"
    => \A i \in 1..Len(FractionValue) :
           FractionValue[i] = "_"
           => /\ i > 1
              /\ is_digit(FractionValue[i - 1])
              /\ i < Len(FractionValue)
              /\ is_digit(FractionValue[i + 1])

BackslashAt(pos) ==
    IF pos < Len(source) /\ source[pos + 1] = "\\" /\ TerminatorAt(pos + 1) # <<>>
    THEN <<"\\">> \o TerminatorAt(pos + 1)
    ELSE <<>>

\* C17: a backslash right before a line terminator, at a token start, is
\* returned as one NewlineContinuation token whose text is the two together,
\* and the call after it returns no Indent or Dedent token.
C17_BackslashContinuation ==
    /\ (/\ Scanned
        /\ is_char_boundary(source, start_position)
        /\ BackslashAt(TokenStart) # <<>>)
       => /\ result = "Some"
          /\ LastToken = Token("NewlineContinuation", BackslashAt(TokenStart))
    /\ (/\ result = "Some"
        /\ Len(output) >= 2
        /\ output[Len(output) - 1].token_type = "NewlineContinuation"
        /\ output[Len(output) - 1].value[1] = "\\")
       => LastToken.token_type \notin {"Indent", "Dedent"}

\* The call of next() began at the start of a line, after a NewlineLogical,
\* and the line has whitespace and then nothing, a comment or its terminator.
AtBlankLine ==
    /\ Scanned
    /\ start_previous = "NewlineLogical"
    /\ is_char_boundary(source, start_position)
    /\ LET blank(rest) == rest = <<>> \/ rest[1] \in {"#", "\n", "\r"}
       IN  blank(SliceFrom(source, start_position
                                   + whitespace_bytes(source, start_position)))

\* C18: at a line that is only whitespace, or whitespace and a comment,
\* after a NewlineLogical, next() does not fail, returns no Indent or Dedent
\* and leaves the indentation stack alone: the token it returns is the
\* line's Comment or newline token.
C18_BlankLineIgnored ==
    AtBlankLine
    => /\ result = "Some"
       /\ LastToken.token_type \in {"Comment", "NewlineLogical"}
       /\ indentation_stack = <<>>

\* The source begins with whitespace and then a token that is not a
\* comment or a line terminator.
BeginsIndented ==
    /\ whitespace_bytes(source, 0) > 0
    /\ LET token(rest) == rest # <<>> /\ rest[1] \notin {"#", "\n", "\r"}
       IN  token(SliceFrom(source, whitespace_bytes(source, 0)))

\* C19: the first call of next() runs the indentation analysis: when the
\* source begins with whitespace and then a token, the first token returned
\* is an Indent whose text is that whitespace.
C19_FirstStepIndents ==
    (BeginsIndented /\ output # <<>>)
    => output[1] = Token("Indent", SubSeq(source, 1, whitespace_bytes(source, 0)))

RECURSIVE CommentLength(_)
\* The bytes from offset pos up to the first line terminator of the source
\* at or after pos, or up to the end of the source.
CommentLength(pos) ==
    IF pos >= Len(source) \/ TerminatorAt(pos) # <<>> THEN 0
    ELSE 1 + CommentLength(pos + 1)

\* C21: a Comment token runs from the '#' to right before the first line
\* terminator after it ("\n" or "\r\n"), or to the end of the source; a
\* '\r' alone stays in the comment, and the token after the Comment is the
\* newline token of that terminator.
C21_CommentUpToTerminator ==
    /\ (/\ Scanned
        /\ is_char_boundary(source, start_position)
        /\ CharAt(TokenStart) = "#")
       => /\ result = "Some"
          /\ LastToken = Token("Comment",
                               SubSeq(source, TokenStart + 1,
                                      TokenStart + CommentLength(TokenStart)))
    /\ (/\ Scanned
        /\ start_previous = "Comment")
       => /\ result = "Some"
          /\ LastToken.value = TerminatorAt(start_position)

\* The bytes of the maximal run of identifier chars the source has at
\* byte offset pos.
RawNameLength(pos) ==
    LET run(cs) ==
            CHOOSE k \in 0..Len(cs) :
                /\ \A i \in 1..k : is_xid_continue(cs[i])
                /\ k < Len(cs) => ~is_xid_continue(cs[k + 1])
        bytes(cs) == Len(utf8(SubSeq(cs, 1, run(cs))))
    IN  bytes(chars(SliceFrom(source, pos)))

\* C22: after a returned token the cursor is past the source bytes that the
\* scanner consumed for it: after a Name it is right past the identifier run
\* of the source, whatever the length of its NFKC form; the cursor is never
\* inside a character and never beyond the end of the source.
C22_CursorPastConsumedBytes ==
    /\ is_char_boundary(source, position)
    /\ position <= Len(source)
    /\ (/\ result = "Some"
        /\ is_char_boundary(source, start_position)
        /\ LastToken.token_type = "Name")
       => position = TokenStart + RawNameLength(TokenStart)

\* The source has a '.' at byte offset pos, and then whether a decimal
\* digit follows it.
DotAt(pos) == CharAt(pos) = "."
DigitAfter(pos) == is_digit(CharAt(pos + 1))

\* C23: a '.' at a token start with a decimal digit right after it is never
\* returned as a Dot token; any other '.', the last char of the source too,
\* is returned as Dot, or as Ellipsis when the source goes on with "..".
C23_DotOrNumber ==
    (/\ Scanned
     /\ is_char_boundary(source, start_position)
     /\ DotAt(TokenStart))
    => IF DigitAfter(TokenStart)
       THEN ~(result = "Some" /\ LastToken.token_type = "Dot")
       ELSE /\ result = "Some"
            /\ LastToken =
                   IF starts_with(SliceFrom(source, TokenStart), <<".", ".", ".">>)
                   THEN Token("Ellipsis", <<".", ".", ".">>)
                   ELSE Token("Dot", <<".">>)

\* The chars of the source from the start of the last token on.
CharsAtTokenStart == chars(SliceFrom(source, TokenStart))

LeadingWhitespace ==
    SubSeq(source, start_position + 1,
           start_position + whitespace_bytes(source, start_position))

\* The call of next() began at the start of a line, after a NewlineLogical,
\* and the line has whitespace and then a token.
AtIndentedLine ==
    /\ Scanned
    /\ start_previous = "NewlineLogical"
    /\ is_char_boundary(source, start_position)
    /\ LeadingWhitespace # <<>>
    /\ ~AtBlankLine

\* C25: at a line after a NewlineLogical that is not blank and whose
\* leading whitespace is wider than the indentation of the current block,
\* one Indent token is emitted, however much wider the line is, and its
\* text is the whole of the leading whitespace.
C25_OneIndentForDeeperLine ==
    /\ (/\ AtIndentedLine
        /\ indentation_level(LeadingWhitespace)
               > indentation_level(join(indentation_stack)))
       => /\ result = "Some"
          /\ LastToken = Token("Indent", LeadingWhitespace)
          /\ token_buffer = <<>>
    /\ (result = "Some" /\ start_previous = "Indent")
       => LastToken.token_type # "Indent"

\* C25 witness: a line indented by eight spaces got its Indent.
C25_Witness ==
    /\ AtIndentedLine
    /\ result = "Some"
    /\ LastToken = Token("Indent", EightSpaces)

\* C29: at a line after a NewlineLogical whose leading whitespace is form
\* feeds only, before a token, the width is 0: next() emits no Indent or
\* Dedent, skips the form feeds and returns the first token of the line.
C29_FormFeedIndentation ==
    (/\ AtIndentedLine
     /\ \A i \in 1..Len(LeadingWhitespace) : LeadingWhitespace[i] = "\f")
    => /\ result = "Some"
       /\ LastToken.token_type \notin {"Indent", "Dedent"}
       /\ position > start_position + Len(LeadingWhitespace)

\* C30: every Indent token returned comes right after a NewlineLogical
\* token: none is the first token, none follows a NewlineContinuation or
\* another Indent.
C30_IndentAfterNewlineLogical ==
    \A i \in 1..Len(output) :
        output[i].token_type = "Indent"
        => i > 1 /\ output[i - 1].token_type = "NewlineLogical"

\* C30 witness: an Indent was returned for the second line of a source
\* that begins with whitespace.
C30_Witness ==
    /\ whitespace_bytes(source, 0) > 0
    /\ Len(output) >= 3
    /\ output[1].token_type = "Name"
    /\ output[2].token_type = "NewlineLogical"
    /\ output[3].token_type = "Indent"

OpenKinds == {"LeftParenthesis", "LeftSquareBracket", "LeftBrace"}
CloseKinds == {"RightParenthesis", "RightSquareBracket", "RightBrace"}

\* How many tokens of a set of kinds next() has returned.
CountOf(kinds) == Cardinality({i \in 1..Len(output) : output[i].token_type \in kinds})

\* C26: parentheses_level is the number of '(', '[' and '{' tokens returned
\* so far minus the number of ')', ']' and '}' tokens returned so far, and
\* a call that returns a token of another kind leaves it as it was.
C26_BracketDepth ==
    /\ parentheses_level = CountOf(OpenKinds) - CountOf(CloseKinds)
    /\ (result = "Some" /\ LastToken.token_type \notin OpenKinds \cup CloseKinds)
       => parentheses_level = start_level

\* C26 witness: inside a parenthesis, a brace has closed what a square
\* bracket opened.
C26_Witness ==
    /\ result = "Some"
    /\ LastToken.token_type = "RightBrace"
    /\ Len(output) >= 3
    /\ output[1].token_type = "LeftParenthesis"
    /\ output[Len(output) - 1].token_type = "LeftSquareBracket"
    /\ parentheses_level = 1

\* C27: the cursor never decreases, and a call of next() that returns a
\* token moves it forward; so the tokens returned are never more than the
\* bytes of the source, and the calls that return tokens come to an end.
C27_CursorMonotonic ==
    [][/\ position' >= position
       /\ output' # output => position' > position
       /\ Len(output') <= Len(source')]_vars

\* C27 witness: a source of several bytes has given one token per byte and
\* then the end of the sequence.
C27_Witness ==
    /\ result = "None"
    /\ Len(source) >= 3
    /\ Len(output) = Len(source)

\* C28: when only whitespace is left between the last token and the end of
\* the source, the next call of next() skips it and returns None: it does
\* not fail.
C28_TrailingWhitespace ==
    (/\ result # "New"
     /\ output # <<>>
     /\ start_previous # "NewlineLogical"
     /\ is_char_boundary(source, start_position)
     /\ start_position + whitespace_bytes(source, start_position) = Len(source))
    => result = "None"

\* The kind of the closing bracket c.
CloseKind(c) ==
    CASE c = ")" -> "RightParenthesis"
      [] c = "]" -> "RightSquareBracket"
      [] c = "}" -> "RightBrace"

\* C31: a ')', ']' or '}' at a token start is returned as its closing
\* bracket token whatever the depth and whatever was opened, the depth goes
\* down by 1 and below 0 too, and a line terminator scanned at a depth below
\* 0 is a NewlineLogical.
C31_CloserAtAnyDepth ==
    /\ (/\ Scanned
        /\ is_char_boundary(source, start_position)
        /\ CharAt(TokenStart) \in {")", "]", "}"})
       => /\ result = "Some"
          /\ LastToken = Token(CloseKind(CharAt(TokenStart)), <<CharAt(TokenStart)>>)
          /\ parentheses_level = start_level - 1
    /\ (/\ result = "Some"
        /\ start_level < 0
        /\ LastToken.token_type \in {"NewlineLogical", "NewlineContinuation"}
        /\ LastToken.value[1] # "\\")
       => LastToken.token_type = "NewlineLogical"

RECURSIVE Width(_)
\* The width of a whitespace string, from the width of all but its last
\* char: a space adds 1, a form feed nothing, and a tab goes to the smallest
\* multiple of 8 above it.
Width(w) ==
    IF w = <<>> THEN 0
    ELSE LET wide(before, last) ==
                 CASE last = " " -> before + 1
                   [] last = "\t" ->
                        CHOOSE m \in (before + 1)..(before + 8) : m % 8 = 0
                   [] OTHER -> before
         IN  wide(Width(SubSeq(w, 1, Len(w) - 1)), w[Len(w)])

\* C33: indentation_level folds a whitespace string from 0, left to right:
\* a space adds 1, a form feed 0, a tab goes to the smallest multiple of 8
\* above the width so far; the result is never negative, and a string that
\* ends with a space or a tab is wider than the string before that char.
C33_IndentationLevel ==
    call.fn = "indentation_level"
    => /\ call.ret.level = Width(call.value)
       /\ call.ret.level >= 0
       /\ (call.value # <<>> /\ call.value[Len(call.value)] \in {" ", "\t"})
          => call.ret.level
                 > indentation_level(SubSeq(call.value, 1, Len(call.value) - 1))

\* C33 witness: a tab after spaces and a form feed has gone to the second
\* tab stop.
C33_Witness ==
    /\ call.fn = "indentation_level"
    /\ call.ret.level = 16
    /\ \E i \in 1..Len(call.value) : call.value[i] = " "
    /\ \E i \in 1..Len(call.value) : call.value[i] = "\f"
    /\ call.value[Len(call.value)] = "\t"

====
